---- MODULE Spec2Model ----
(***************************************************************************)
(* Model of src/App.tsx: the project registry held by the App component    *)
(* (the list of project files and the active project id), its handlers,    *)
(* its two effects (load on mount, save after a change of the list) and    *)
(* the localStorage item the effects read and write.                       *)
(*                                                                         *)
(* A handler runs to completion, then React renders the component again    *)
(* (Render), then the save effect runs if the list changed (SaveEffect).   *)
(* The page can be closed or reloaded at any point (Reload).               *)
(***************************************************************************)
EXTENDS Naturals, Sequences, FiniteSets

VARIABLES
  projects,         \* useState<ProjectFile[]>: the latest state of the list
  activeProjectId,  \* useState<string | null>
  storage,          \* localStorage item PROJECTS_STORAGE_KEY
  clock,            \* the value Date.now() returned last (its readings never decrease)
  pc,               \* "mount" | "idle" | "render" | "effect" | "crashed"
  dirty,            \* the projects dependency of the save effect changed
  view,             \* what the last render saw: the handlers' closure
  last,             \* history: the most recent handler call and its pre-state
  beforeMutation,   \* history: the list before the most recent setProjects
  written,          \* history: the list whose serialization the stored item is
  calls             \* history: how many calls of a handler that sets the list were made

vars ==
  <<projects, activeProjectId, storage, clock, pc, dirty, view, last, beforeMutation,
    written, calls>>

\* Bounds of the model.
MaxClock == 2
MaxCalls == 2

----------------------------------------------------------------------------
\* JavaScript values

\* null (activeProjectId) ; a string id is a pair <<prefix, number>>
Null == <<>>

\* `PROJ_${Date.now()}`
ProjId(t) == <<"PROJ_", t>>

HasKey(r, k) == k \in DOMAIN r

\* { ...r, [k]: v }
Spread(r, k, v) == [x \in (DOMAIN r) \cup {k} |-> IF x = k THEN v ELSE r[x]]

----------------------------------------------------------------------------
\* JSON documents: what JSON.stringify writes and JSON.parse reads.

JNum(n) == [t |-> "num", v |-> n]
JStr(s) == [t |-> "str", v |-> s]
JArr(s) == [t |-> "arr", v |-> s]
JObj(s) == [t |-> "obj", v |-> s]

\* An object is written as its present keys, in order, each with its value.
StringifyObject(r, order, F(_, _)) ==
  LET ks == SelectSeq(order, LAMBDA k : k \in DOMAIN r)
  IN  JObj([i \in 1..Len(ks) |-> <<ks[i], F(ks[i], r[ks[i]])>>])

StringifyArray(s, F(_)) == JArr([i \in 1..Len(s) |-> F(s[i])])

StringifyStrings(s) == StringifyArray(s, JStr)

\* An object is read back as a record of the keys that were written.
ParseObject(j, F(_, _)) ==
  LET val(k) == j.v[CHOOSE i \in 1..Len(j.v) : j.v[i][1] = k][2]
  IN  [k \in {j.v[i][1] : i \in 1..Len(j.v)} |-> F(k, val(k))]

ParseArray(j, F(_)) == [i \in 1..Len(j.v) |-> F(j.v[i])]

ParseScalar(j) == j.v

ParseStrings(j) == ParseArray(j, ParseScalar)

NumberKeys == {"createdAt", "lastModified"}
StringListKeys == {"options", "variableIds", "headerVariableIds", "defaultRows"}

VariableKeys == <<"id", "label", "type", "options", "format">>
FormKeys == <<"id", "name", "type", "headerVariableIds", "variableIds", "defaultRows">>
LibraryKeys == <<"variables", "forms">>
NodeKeys == <<"id", "title", "formId", "children">>
VersionKeys == <<"id", "label", "createdAt", "tree", "library">>
MetaKeys == <<"id", "name", "description", "createdAt", "lastModified">>
DataKeys == <<"project", "library", "versions">>
FileKeys == <<"meta", "data">>

StringifyLeaf(k, x) ==
  IF k \in NumberKeys THEN JNum(x)
  ELSE IF k \in StringListKeys THEN StringifyStrings(x)
  ELSE JStr(x)

ParseLeaf(k, j) == IF k \in StringListKeys THEN ParseStrings(j) ELSE ParseScalar(j)

StringifyVariable(x) == StringifyObject(x, VariableKeys, StringifyLeaf)
StringifyForm(x) == StringifyObject(x, FormKeys, StringifyLeaf)

StringifyLibrary(lib) ==
  StringifyObject(lib, LibraryKeys,
    LAMBDA k, x : IF k = "variables" THEN StringifyArray(x, StringifyVariable)
                  ELSE StringifyArray(x, StringifyForm))

ParseVariable(j) == ParseObject(j, ParseLeaf)
ParseForm(j) == ParseObject(j, ParseLeaf)

ParseLibrary(j) ==
  ParseObject(j,
    LAMBDA k, x : IF k = "variables" THEN ParseArray(x, ParseVariable)
                  ELSE ParseArray(x, ParseForm))

RECURSIVE StringifyNode(_)
StringifyNode(n) ==
  StringifyObject(n, NodeKeys,
    LAMBDA k, x : IF k = "children" THEN StringifyArray(x, StringifyNode)
                  ELSE StringifyLeaf(k, x))

RECURSIVE ParseNode(_)
ParseNode(j) ==
  ParseObject(j,
    LAMBDA k, x : IF k = "children" THEN ParseArray(x, ParseNode)
                  ELSE ParseLeaf(k, x))

StringifyTree(tree) == StringifyArray(tree, StringifyNode)
ParseTree(j) == ParseArray(j, ParseNode)

StringifyVersion(ver) ==
  StringifyObject(ver, VersionKeys,
    LAMBDA k, x : IF k = "tree" THEN StringifyTree(x)
                  ELSE IF k = "library" THEN StringifyLibrary(x)
                  ELSE StringifyLeaf(k, x))

ParseVersion(j) ==
  ParseObject(j,
    LAMBDA k, x : IF k = "tree" THEN ParseTree(x)
                  ELSE IF k = "library" THEN ParseLibrary(x)
                  ELSE ParseLeaf(k, x))

StringifyData(d) ==
  StringifyObject(d, DataKeys,
    LAMBDA k, x : IF k = "project" THEN StringifyTree(x)
                  ELSE IF k = "library" THEN StringifyLibrary(x)
                  ELSE StringifyArray(x, StringifyVersion))

ParseData(j) ==
  ParseObject(j,
    LAMBDA k, x : IF k = "project" THEN ParseTree(x)
                  ELSE IF k = "library" THEN ParseLibrary(x)
                  ELSE ParseArray(x, ParseVersion))

StringifyFile(p) ==
  StringifyObject(p, FileKeys,
    LAMBDA k, x : IF k = "meta" THEN StringifyObject(x, MetaKeys, StringifyLeaf)
                  ELSE StringifyData(x))

ParseFile(j) ==
  ParseObject(j,
    LAMBDA k, x : IF k = "meta" THEN ParseObject(x, ParseLeaf) ELSE ParseData(x))

\* a serialization that writes the meta of each file and leaves its data out
StringifyMetaOnly(ps) ==
  StringifyArray(ps,
    LAMBDA p : StringifyObject(p, <<"meta">>,
                 LAMBDA k, x : StringifyObject(x, MetaKeys, StringifyLeaf)))

\* JSON.stringify(projects)
Stringify(ps) == StringifyArray(ps, StringifyFile)

\* JSON.parse(saved), for a stored array of project files
Parse(j) == ParseArray(j, ParseFile)

----------------------------------------------------------------------------
\* The default library (labels, formats and row titles are written in ASCII).

INITIAL_LIBRARY ==
  [variables |-> <<
     [id |-> "DEM_01", label |-> "subject initials", type |-> "text", format |-> "max 4 letters"],
     [id |-> "DEM_02", label |-> "date of birth", type |-> "date", format |-> "YYYY-MM-DD"],
     [id |-> "VS_01", label |-> "systolic (mmHg)", type |-> "number", format |-> "3 digits"],
     [id |-> "VS_02", label |-> "diastolic (mmHg)", type |-> "number", format |-> "3 digits"],
     [id |-> "VS_03", label |-> "heart rate (bpm)", type |-> "number", format |-> "3 digits"],
     [id |-> "AE_01", label |-> "adverse event", type |-> "text"],
     [id |-> "AE_02", label |-> "severity", type |-> "select",
      options |-> <<"mild", "moderate", "severe">>],
     [id |-> "AE_03", label |-> "relation to drug", type |-> "radio",
      options |-> <<"certain", "possible", "unlikely", "none">>],
     [id |-> "PK_DONE", label |-> "sample taken", type |-> "radio", options |-> <<"yes", "no">>],
     [id |-> "PK_DATE", label |-> "sample date", type |-> "date", format |-> "YYYY-MM-DD"],
     [id |-> "PK_TIME", label |-> "sample time", type |-> "text", format |-> "HH:MM (24h)"],
     [id |-> "PK_REMARK", label |-> "remark", type |-> "text"],
     [id |-> "URINE_VOL", label |-> "urine volume (mL)", type |-> "number"],
     [id |-> "URINE_START", label |-> "start time", type |-> "text", format |-> "HH:MM"],
     [id |-> "URINE_END", label |-> "end time", type |-> "text", format |-> "HH:MM"] >>,
   forms |-> <<
     [id |-> "DM", name |-> "demographics", type |-> "standard",
      variableIds |-> <<"DEM_01", "DEM_02">>],
     [id |-> "VS", name |-> "vital signs", type |-> "standard",
      variableIds |-> <<"VS_01", "VS_02", "VS_03">>],
     [id |-> "AE", name |-> "adverse events", type |-> "standard",
      variableIds |-> <<"AE_01", "AE_02", "AE_03">>],
     [id |-> "PK", name |-> "PK sampling", type |-> "grid",
      headerVariableIds |-> <<"PK_DATE">>,
      variableIds |-> <<"PK_TIME", "PK_DONE", "PK_REMARK">>,
      defaultRows |-> <<"pre 0h", "post 0.5h", "post 1h", "post 2h", "post 4h">>] >>]

\* JSON.parse(JSON.stringify(INITIAL_LIBRARY))
CloneInitialLibrary == ParseLibrary(StringifyLibrary(INITIAL_LIBRARY))

----------------------------------------------------------------------------
\* Referential integrity of a library and of a tree paired with it.

Range(s) == {s[i] : i \in 1..Len(s)}

VariableIdsOf(lib) == {lib.variables[i].id : i \in 1..Len(lib.variables)}
FormIdsOf(lib) == {lib.forms[i].id : i \in 1..Len(lib.forms)}

FormRefs(f) ==
  Range(f.variableIds) \cup
  (IF HasKey(f, "headerVariableIds") THEN Range(f.headerVariableIds) ELSE {})

LibraryIntact(lib) ==
  \A i \in 1..Len(lib.forms) : FormRefs(lib.forms[i]) \subseteq VariableIdsOf(lib)

RECURSIVE NodeIntact(_, _)
NodeIntact(n, lib) ==
  /\ HasKey(n, "formId") => n.formId \in FormIdsOf(lib)
  /\ \A i \in 1..Len(n.children) : NodeIntact(n.children[i], lib)

TreeIntact(tree, lib) == \A i \in 1..Len(tree) : NodeIntact(tree[i], lib)

\* A document with every required key.
WellFormed(f) ==
  /\ HasKey(f, "meta") /\ HasKey(f, "data")
  /\ HasKey(f.data, "project") /\ HasKey(f.data, "library") /\ HasKey(f.data, "versions")

----------------------------------------------------------------------------
\* The values the handlers are called with.

SmallLibrary ==
  [variables |-> << [id |-> "PK_DATE", label |-> "sample date", type |-> "date"],
                    [id |-> "PK_TIME", label |-> "sample time", type |-> "text"] >>,
   forms |-> << [id |-> "PK", name |-> "PK sampling", type |-> "grid",
                 headerVariableIds |-> <<"PK_DATE">>, variableIds |-> <<"PK_TIME">>,
                 defaultRows |-> <<"T0", "T1">>] >>]

\* forms[0].variableIds names a variable that is not in variables
DanglingLibrary ==
  [variables |-> << [id |-> "PK_DATE", label |-> "sample date", type |-> "date"] >>,
   forms |-> << [id |-> "PK2", name |-> "PK sampling 2", type |-> "standard",
                 variableIds |-> <<"MISSING">>] >>]

EmptyTree == <<>>

SmallTree ==
  << [id |-> "n1", title |-> "Visit 1", children |->
        << [id |-> "n2", title |-> "PK", formId |-> "PK", children |-> <<>>] >>] >>

SmallVersion ==
  [id |-> "v1", label |-> "v1", createdAt |-> 0, tree |-> SmallTree, library |-> SmallLibrary]

Names == {"Study A"}
Descriptions == {"first in human"}

TreeValues == {SmallTree}
LibraryValues == {SmallLibrary}
VersionsValues == {<<SmallVersion>>}

ExtId == <<"EXT_", 1>>

\* a well-formed file; its id is not one this application generates
FileExt ==
  [meta |-> [id |-> ExtId, name |-> "Imported", description |-> "", createdAt |-> 0,
             lastModified |-> 0],
   data |-> [project |-> SmallTree, library |-> SmallLibrary, versions |-> <<SmallVersion>>]]

\* a well-formed file exported where the clock read MaxClock
FileProj ==
  [meta |-> [id |-> ProjId(MaxClock), name |-> "Exported", description |-> "",
             createdAt |-> MaxClock, lastModified |-> MaxClock],
   data |-> [project |-> EmptyTree, library |-> SmallLibrary, versions |-> <<>>]]

\* well-formed meta with the id of FileExt, a library whose form names a missing variable
FileDangling ==
  [meta |-> [id |-> ExtId, name |-> "Dangling", description |-> "", createdAt |-> 0,
             lastModified |-> 0],
   data |-> [project |-> EmptyTree, library |-> DanglingLibrary, versions |-> <<>>]]

\* data.project is absent
FileNoTree ==
  [meta |-> [id |-> <<"EXT_", 3>>, name |-> "No tree", description |-> "", createdAt |-> 0,
             lastModified |-> 0],
   data |-> [library |-> SmallLibrary, versions |-> <<>>]]

\* data is absent
FileNoData ==
  [meta |-> [id |-> <<"EXT_", 4>>, name |-> "No data", description |-> "", createdAt |-> 0,
             lastModified |-> 0]]

\* meta is absent
FileNoMeta ==
  [data |-> [project |-> EmptyTree, library |-> SmallLibrary, versions |-> <<>>]]

ImportFiles ==
  {FileExt, FileProj, FileDangling, FileNoTree, FileNoData, FileNoMeta}

\* an id no project has
UnlistedId == <<"EXT_", 9>>

\* the ids of the projects the dashboard lists
ListedIds(ps) == {ps[i].meta.id : i \in 1..Len(ps)}

\* localStorage.getItem returns null ; text that is not JSON ; JSON that is no array
NoItem == [t |-> "none"]
Garbage == [t |-> "garbage"]
NotAnArray == JObj(<<>>)

\* a well-formed file created by this application before the clock read 1
FileStored ==
  [meta |-> [id |-> ProjId(0), name |-> "Stored", description |-> "", createdAt |-> 0,
             lastModified |-> 0],
   data |-> [project |-> EmptyTree, library |-> CloneInitialLibrary, versions |-> <<>>]]

\* a second project with the id of FileStored: handleCreateProject was called twice
\* at one reading of the clock (C2)
FileStoredTwin == [FileStored EXCEPT !.meta.name = "Stored twin"]

\* The lists an earlier run of the application left in the store, and the other
\* values the item can have when the application starts.
StoredLists == {<<FileStored>>, <<FileStored, FileExt>>}
OtherStorage == {NoItem, Garbage, NotAnArray}

----------------------------------------------------------------------------
\* The component

NoCall == [op |-> "none"]

FirstRender == [projects |-> <<>>, activeProjectId |-> Null, screen |-> "dashboard"]

Init ==
  /\ projects = <<>>
  /\ activeProjectId = Null
  /\ \/ storage \in OtherStorage /\ written = <<>>
     \/ \E ps \in StoredLists : storage = Stringify(ps) /\ written = ps
  /\ clock = 1
  /\ pc = "mount"
  /\ dirty = FALSE
  /\ view = FirstRender
  /\ last = NoCall
  /\ beforeMutation = <<>>
  /\ calls = 0

\* projects.find(p => p.meta.id === id), from index i: the index found (0: undefined),
\* or the TypeError of reading .id of an absent meta
RECURSIVE Find(_, _, _)
Find(ps, id, i) ==
  IF i > Len(ps) THEN [threw |-> FALSE, index |-> 0]
  ELSE IF ~HasKey(ps[i], "meta") THEN [threw |-> TRUE, index |-> 0]
  ELSE IF ps[i].meta.id = id THEN [threw |-> FALSE, index |-> i]
  ELSE Find(ps, id, i + 1)

\* !activeProjectId || !activeProject ? <ProjectDashboard/> : <DocumentBuilder/>
Screen(ps, id) ==
  IF id = Null \/ Find(ps, id, 1).index = 0 THEN "dashboard" ELSE "editor"

\* the render throws: in find, or reading activeProject.data.library of an absent data
RenderThrows(ps, id) ==
  \/ Find(ps, id, 1).threw
  \/ /\ Screen(ps, id) = "editor"
     /\ ~HasKey(ps[Find(ps, id, 1).index], "data")

\* handlers that keep the list of the first render (memoised without dependencies)
ClosureOfFirstRender(ps, id) ==
  [projects |-> <<>>, activeProjectId |-> id, screen |-> Screen(ps, id)]

\* What the handlers and effects that a render creates close over, and the screen it
\* returns
Closure(ps, id) ==
  [projects |-> ps, activeProjectId |-> id, screen |-> Screen(ps, id)]

\* The component function runs again after a state change.
Render ==
  /\ pc = "render"
  /\ IF RenderThrows(projects, activeProjectId)
     THEN /\ pc' = "crashed"
          /\ UNCHANGED <<view, dirty>>
     ELSE /\ view' = Closure(projects, activeProjectId)
          /\ pc' = IF dirty THEN "effect" ELSE "idle"
          /\ dirty' = FALSE
  /\ UNCHANGED <<projects, activeProjectId, storage, clock, last, beforeMutation, written, calls>>

\* Array.isArray applied to the string that getItem returned
LoadsArrayOfString(saved) == FALSE

\* if (saved) ... Array.isArray(parsed)
LoadsArray(saved) == saved.t = "arr"

\* useEffect(..., []): load the projects on mount
LoadEffect ==
  /\ pc = "mount"
  /\ IF LoadsArray(storage)
     THEN /\ projects' = Parse(storage)
          /\ dirty' = TRUE
     ELSE UNCHANGED <<projects, dirty>>
  /\ pc' = "effect"
  /\ last' = [op |-> "load", arg |-> storage, projects |-> projects,
              activeProjectId |-> activeProjectId, clock |-> clock,
              deleted |-> IF last.op = "reload" THEN last.deleted ELSE <<>>]
  /\ beforeMutation' = IF LoadsArray(storage) THEN projects ELSE beforeMutation
  /\ UNCHANGED <<activeProjectId, storage, clock, view, written, calls>>

\* a save effect without the test of the length
ShouldSaveAlways(ps) == TRUE

\* if (projects.length > 0)
ShouldSave(ps) == Len(ps) > 0

\* useEffect(..., [projects]): save the projects the render saw
SaveEffect ==
  /\ pc = "effect"
  /\ storage' = IF ShouldSave(view.projects) THEN Stringify(view.projects) ELSE storage
  /\ written' = IF ShouldSave(view.projects) THEN view.projects ELSE written
  /\ pc' = IF dirty THEN "render" ELSE "idle"
  /\ UNCHANGED <<projects, activeProjectId, clock, dirty, view, last, beforeMutation, calls>>

\* the object literal of handleCreateProject, with the three readings of Date.now()
NewProject(name, description, t1, t2, t3) ==
  [meta |-> [id |-> ProjId(t1), name |-> name, description |-> description,
             createdAt |-> t2, lastModified |-> t3],
   data |-> [project |-> <<>>, library |-> CloneInitialLibrary, versions |-> <<>>]]

\* What Date.now() can return next
Now == clock..MaxClock

\* The three readings of Date.now() in handleCreateProject: the clock advances at
\* most once while the handler runs.
CreateTimes ==
  {t \in Now \X Now \X Now : t[1] <= t[2] /\ t[2] <= t[3] /\ t[3] <= t[1] + 1}

\* An operator action is accepted when the one before it has run to completion: the
\* render and the effects that its state changes caused are done.
Accepting == pc = "idle"

\* the file put in front under an id made from the length of the list
AdmitRemapped(file, prev) ==
  <<IF HasKey(file, "meta")
    THEN [file EXCEPT !.meta = Spread(file.meta, "id", ProjId(Len(prev)))]
    ELSE file>> \o prev

\* the new file put behind the others
AdmitLast(file, prev) == Append(prev, file)

\* prev => [file, ...prev]
Admit(file, prev) == <<file>> \o prev

\* a handler that makes the active id from a fourth reading of Date.now()
handleCreateProjectRereadingClock(name, description) ==
  /\ Accepting
  /\ view.screen = "dashboard"
  /\ calls < MaxCalls
  /\ calls' = calls + 1
  /\ \E t \in CreateTimes :
       LET newProject == NewProject(name, description, t[1], t[2], t[3])
       IN  /\ projects' = Admit(newProject, projects)
           /\ activeProjectId' = ProjId(t[3])
           /\ clock' = t[3]
           /\ last' = [op |-> "create", arg |-> <<name, description>>, projects |-> projects,
                       activeProjectId |-> activeProjectId, clock |-> clock]
  /\ beforeMutation' = projects
  /\ dirty' = TRUE
  /\ pc' = "render"
  /\ UNCHANGED <<storage, view, written>>

handleCreateProject(name, description) ==
  /\ Accepting
  /\ view.screen = "dashboard"
  /\ calls < MaxCalls
  /\ calls' = calls + 1
  /\ \E t \in CreateTimes :
       LET newProject == NewProject(name, description, t[1], t[2], t[3])
       IN  /\ projects' = Admit(newProject, projects)
           /\ activeProjectId' = newProject.meta.id
           /\ clock' = t[3]
           /\ last' = [op |-> "create", arg |-> <<name, description>>, projects |-> projects,
                       activeProjectId |-> activeProjectId, clock |-> clock]
  /\ beforeMutation' = projects
  /\ dirty' = TRUE
  /\ pc' = "render"
  /\ UNCHANGED <<storage, view, written>>

\* a check that looks at the newest project only
IsDuplicateOfFirst(ps, fileData) ==
  Len(ps) > 0 /\ ps[1].meta.id = fileData.meta.id

\* projects.some(p => p.meta.id === fileData.meta.id), over projects that have a meta
IsDuplicate(ps, fileData) ==
  \E i \in 1..Len(ps) : ps[i].meta.id = fileData.meta.id

handleImportProject(fileData) ==
  /\ Accepting
  /\ view.screen = "dashboard"
  /\ calls < MaxCalls
  /\ calls' = calls + 1
  /\ IF Len(view.projects) > 0 /\ ~HasKey(fileData, "meta")
     THEN \* TypeError in the callback of some: nothing was set
          /\ pc' = "idle"
          /\ UNCHANGED <<projects, activeProjectId, dirty, beforeMutation>>
     ELSE IF Len(view.projects) > 0 /\ IsDuplicate(view.projects, fileData)
     THEN \* alert(...); return
          /\ pc' = "idle"
          /\ UNCHANGED <<projects, activeProjectId, dirty, beforeMutation>>
     ELSE /\ projects' = Admit(fileData, projects)
          /\ beforeMutation' = projects
          /\ dirty' = TRUE
          /\ pc' = "render"
          /\ IF HasKey(fileData, "meta")
             THEN activeProjectId' = fileData.meta.id
             ELSE \* TypeError after setProjects
                  UNCHANGED activeProjectId
  /\ last' = [op |-> "import", arg |-> fileData, projects |-> projects,
              activeProjectId |-> activeProjectId, clock |-> clock]
  /\ UNCHANGED <<storage, clock, view, written>>

\* a filter with the comparison the other way round
RemoveOthers(prev, id) == SelectSeq(prev, LAMBDA p : p.meta.id = id)

\* prev => prev.filter(p => p.meta.id !== id)
Remove(prev, id) == SelectSeq(prev, LAMBDA p : p.meta.id # id)

handleDeleteProject(id) ==
  /\ Accepting
  /\ view.screen = "dashboard"
  /\ calls < MaxCalls
  /\ calls' = calls + 1
  /\ projects' = Remove(projects, id)
  /\ activeProjectId' = IF view.activeProjectId = id THEN Null ELSE activeProjectId
  /\ beforeMutation' = projects
  /\ dirty' = TRUE
  /\ pc' = "render"
  /\ last' = [op |-> "delete", arg |-> id, projects |-> projects,
              activeProjectId |-> activeProjectId, clock |-> clock]
  /\ UNCHANGED <<storage, clock, view, written>>

handleOpenProject(id) ==
  /\ Accepting
  /\ view.screen = "dashboard"
  /\ id \in ListedIds(view.projects)
  /\ activeProjectId' = id
  /\ pc' = "render"
  /\ last' = [op |-> "open", arg |-> id, projects |-> projects,
              activeProjectId |-> activeProjectId, clock |-> clock]
  /\ UNCHANGED <<projects, storage, clock, dirty, view, beforeMutation, written, calls>>

handleBackToDashboard ==
  /\ Accepting
  /\ view.screen = "editor"
  /\ activeProjectId' = Null
  /\ pc' = "render"
  /\ last' = [op |-> "back", arg |-> Null, projects |-> projects,
              activeProjectId |-> activeProjectId, clock |-> clock]
  /\ UNCHANGED <<projects, storage, clock, dirty, view, beforeMutation, written, calls>>

\* an update that returns the new value alone, without ...data
TouchWithoutSpread(p, key, newVal, now) ==
  [p EXCEPT !.meta = Spread(p.meta, "lastModified", now),
            !.data = [k \in {key} |-> newVal]]

\* an update that starts the version list anew
TouchResettingVersions(p, key, newVal, now) ==
  [p EXCEPT !.meta = Spread(p.meta, "lastModified", now),
            !.data = Spread(Spread(p.data, "versions", <<>>), key, newVal)]

\* an update of the data that leaves the meta as it was
TouchDataOnly(p, key, newVal, now) == [p EXCEPT !.data = Spread(p.data, key, newVal)]

\* { ...p, meta: { ...p.meta, lastModified: Date.now() }, data: updater(p.data) }
Touch(p, key, newVal, now) ==
  [p EXCEPT !.meta = Spread(p.meta, "lastModified", now),
            !.data = Spread(p.data, key, newVal)]

\* a map without the test of the id
MapEvery(prev, id, key, newVal, now) ==
  [i \in 1..Len(prev) |-> Touch(prev[i], key, newVal, now)]

\* prev => prev.map(p => p.meta.id !== activeProjectId ? p : ...)
MapActive(prev, id, key, newVal, now) ==
  [i \in 1..Len(prev) |->
     IF prev[i].meta.id # id THEN prev[i] ELSE Touch(prev[i], key, newVal, now)]

\* the updater of set<key>Wrapper with the value newVal
updateActiveProjectData(key, newVal) ==
  /\ Accepting
  /\ view.screen = "editor"
  /\ calls < MaxCalls
  /\ calls' = calls + 1
  /\ IF view.activeProjectId = Null
     THEN /\ pc' = "idle"
          /\ UNCHANGED <<projects, dirty, beforeMutation, clock>>
     ELSE /\ \E now \in Now :
               /\ projects' = MapActive(projects, view.activeProjectId, key, newVal, now)
               /\ clock' = now
          /\ beforeMutation' = projects
          /\ dirty' = TRUE
          /\ pc' = "render"
  /\ last' = [op |-> "edit", arg |-> <<key, newVal>>, projects |-> projects,
              activeProjectId |-> activeProjectId, clock |-> clock]
  /\ UNCHANGED <<activeProjectId, storage, view, written>>

setProjectWrapper(newVal) == updateActiveProjectData("project", newVal)
setLibraryWrapper(newVal) == updateActiveProjectData("library", newVal)
setVersionsWrapper(newVal) == updateActiveProjectData("versions", newVal)

\* the most recent handler call deleted the only project of the list
DeletedOnly ==
  /\ last.op = "delete"
  /\ Len(last.projects) = 1
  /\ last.projects[1].meta.id = last.arg

\* The page is closed, or crashes, and is opened again: the component is constructed
\* anew. (last remembers the list of a deletion of the only project across the reload.)
Reload ==
  /\ pc # "mount"
  /\ projects' = <<>>
  /\ activeProjectId' = Null
  /\ pc' = "mount"
  /\ dirty' = FALSE
  /\ view' = FirstRender
  /\ last' = IF DeletedOnly THEN [op |-> "reload", deleted |-> last.projects] ELSE NoCall
  /\ beforeMutation' = <<>>
  /\ UNCHANGED <<storage, clock, written, calls>>

Next ==
  \/ LoadEffect
  \/ Render
  \/ SaveEffect
  \/ \E name \in Names, description \in Descriptions : handleCreateProject(name, description)
  \/ \E fileData \in ImportFiles : handleImportProject(fileData)
  \/ \E id \in ListedIds(view.projects) \cup {UnlistedId} : handleDeleteProject(id)
  \/ \E id \in ListedIds(view.projects) : handleOpenProject(id)
  \/ handleBackToDashboard
  \/ \E newVal \in TreeValues : setProjectWrapper(newVal)
  \/ \E newVal \in LibraryValues : setLibraryWrapper(newVal)
  \/ \E newVal \in VersionsValues : setVersionsWrapper(newVal)
  \/ Reload

Spec == Init /\ [][Next]_vars

\* The application starts on a store in which an earlier run left two projects that
\* handleCreateProject made at one reading of the clock.
InitTwins ==
  /\ projects = <<>>
  /\ activeProjectId = Null
  /\ storage = Stringify(<<FileStoredTwin, FileStored>>)
  /\ written = <<FileStoredTwin, FileStored>>
  /\ clock = 1
  /\ pc = "mount"
  /\ dirty = FALSE
  /\ view = FirstRender
  /\ last = NoCall
  /\ beforeMutation = <<>>
  /\ calls = 0

SpecTwins == InitTwins /\ [][Next]_vars

----------------------------------------------------------------------------
\* Properties

\* the handlers that call setProjects
SetsList(op) == op \in {"create", "import", "delete", "edit"}

\* the most recent handler call changed the list
ListChanged == SetsList(last.op) /\ projects # last.projects

\* the indices of the projects of ps that have the id
Matches(ps, id) == {i \in 1..Len(ps) : ps[i].meta.id = id}

\* C1: an import of a file whose meta.id is the meta.id of a project of the list is
\* refused: the list after handleImportProject is the list before it, element by
\* element, and the active project id is the one before it.
C1_DuplicateImportRefused ==
  (/\ last.op = "import"
   /\ HasKey(last.arg, "meta")
   /\ last.arg.meta.id \in ListedIds(last.projects))
  => /\ projects = last.projects
     /\ activeProjectId = last.activeProjectId

\* a file with the id of the second of two projects, and other contents, was refused
C1_Witness ==
  /\ last.op = "import"
  /\ Len(last.projects) = 2
  /\ HasKey(last.arg, "meta")
  /\ last.arg.meta.id = last.projects[2].meta.id
  /\ last.arg.meta.id # last.projects[1].meta.id
  /\ last.arg # last.projects[2]
  /\ projects = last.projects

\* C2: no two projects of the list have the same meta.id.
C2_UniqueIds ==
  \A i, j \in 1..Len(projects) :
    (i # j /\ HasKey(projects[i], "meta") /\ HasKey(projects[j], "meta"))
    => projects[i].meta.id # projects[j].meta.id

\* C3: an import of a file with every required key and an id no project has, whose
\* library or tree breaks referential integrity, is refused: the list is unchanged.
C3_DanglingImportRefused ==
  (/\ last.op = "import"
   /\ WellFormed(last.arg)
   /\ last.arg.meta.id \notin ListedIds(last.projects)
   /\ ~(/\ LibraryIntact(last.arg.data.library)
        /\ TreeIntact(last.arg.data.project, last.arg.data.library)))
  => projects = last.projects

\* C4: an import of a document that lacks a required key is rejected: the list and
\* the active project id are unchanged.
C4_MalformedImportRefused ==
  (last.op = "import" /\ ~WellFormed(last.arg))
  => /\ projects = last.projects
     /\ activeProjectId = last.activeProjectId

\* C5: after a handler changed the list and the save effect has run, the stored
\* item is the serialization of the whole list.
C5_PersistedAfterMutation ==
  (pc = "idle" /\ ListChanged) => storage = Stringify(projects)

C7_LastModifiedNeverDecreases ==
  last.op = "edit" =>
    \A i \in Matches(projects, last.activeProjectId) :
      /\ projects[i].meta.lastModified = clock
      /\ projects[i].meta.lastModified >= last.projects[i].meta.lastModified
      /\ projects[i].meta.lastModified >= projects[i].meta.createdAt

\* C7, amended: an edit sets the lastModified of the active project to the reading
\* of the clock and leaves its createdAt; a project that handleCreateProject made
\* has createdAt <= lastModified = the last reading; so the lastModified of a
\* project whose createdAt and lastModified were not later than the clock when the
\* edit began does not decrease and is not smaller than its createdAt.
C7_EditStampsClock ==
  /\ last.op = "edit" =>
       \A i \in Matches(projects, last.activeProjectId) :
         /\ projects[i].meta.lastModified = clock
         /\ projects[i].meta.createdAt = last.projects[i].meta.createdAt
         /\ (/\ last.projects[i].meta.createdAt <= last.clock
             /\ last.projects[i].meta.lastModified <= last.clock)
            => /\ projects[i].meta.lastModified >= last.projects[i].meta.lastModified
               /\ projects[i].meta.lastModified >= projects[i].meta.createdAt
  /\ last.op = "create" =>
       /\ projects[1].meta.createdAt <= projects[1].meta.lastModified
       /\ projects[1].meta.lastModified = clock

\* an edit moved the lastModified of a project forward
C7_Witness ==
  /\ last.op = "edit"
  /\ \E i \in Matches(projects, last.activeProjectId) :
       /\ last.projects[i].meta.lastModified < projects[i].meta.lastModified
       /\ projects[i].meta.lastModified = clock

\* C8: handleCreateProject(name, description) makes a project with an empty tree, no
\* versions, a library equal to INITIAL_LIBRARY and the given name and description,
\* puts it in front of the other projects, which keep their order, and makes it the
\* active project.
C8_CreateResult ==
  last.op = "create" =>
    /\ Len(projects) = Len(last.projects) + 1
    /\ projects[1].data.project = <<>>
    /\ projects[1].data.versions = <<>>
    /\ projects[1].data.library = INITIAL_LIBRARY
    /\ projects[1].meta.name = last.arg[1]
    /\ projects[1].meta.description = last.arg[2]
    /\ \A i \in 1..Len(last.projects) : projects[i + 1] = last.projects[i]
    /\ activeProjectId = projects[1].meta.id

\* a project was created in front of two different projects
C8_Witness ==
  /\ last.op = "create"
  /\ Len(last.projects) = 2
  /\ last.projects[1] # last.projects[2]
  /\ Len(projects) = 3
  /\ activeProjectId = projects[1].meta.id

\* the index in ps of the k-th project whose id is not the given one
KeptIndex(ps, id, k) ==
  CHOOSE i \in 1..Len(ps) :
    /\ ps[i].meta.id # id
    /\ Cardinality({j \in 1..i : ps[j].meta.id # id}) = k

C10_CrashSafe ==
  pc # "mount" =>
    IF storage.t = "arr"
    THEN storage = Stringify(projects) \/ storage = Stringify(beforeMutation)
    ELSE projects = <<>> \/ beforeMutation = <<>>

SameField(a, b, k) == HasKey(a, k) = HasKey(b, k) /\ (HasKey(a, k) => a[k] = b[k])

\* the most recent handler call was an edit through the wrapper of one of the keys
Edited(keys) == last.op = "edit" /\ last.arg[1] \in keys

\* C14: setVersionsWrapper leaves the tree (data.project) and the library
\* (data.library) of the active project as they were.
C14_VersionsEditKeepsTreeAndLibrary ==
  Edited({"versions"}) =>
    \A i \in Matches(last.projects, last.activeProjectId) :
      /\ SameField(projects[i].data, last.projects[i].data, "project")
      /\ SameField(projects[i].data, last.projects[i].data, "library")

\* a version was added to a project that has a tree and a library
C14_Witness ==
  /\ Edited({"versions"})
  /\ \E i \in Matches(last.projects, last.activeProjectId) :
       /\ WellFormed(projects[i])
       /\ projects[i].data.project # <<>>
       /\ projects[i].data.library = INITIAL_LIBRARY
       /\ last.projects[i].data.versions = <<>>
       /\ projects[i].data.versions = last.arg[2]
       /\ projects[i].data.versions # <<>>

\* C15: setProjectWrapper and setLibraryWrapper leave the version list of the active
\* project as it was: the same versions in the same order with the same payloads.
C15_TreeAndLibraryEditsKeepVersions ==
  Edited({"project", "library"}) =>
    \A i \in Matches(last.projects, last.activeProjectId) :
      SameField(projects[i].data, last.projects[i].data, "versions")

\* the tree or the library of a project that has a version was changed
C15_Witness ==
  /\ Edited({"project", "library"})
  /\ \E i \in Matches(last.projects, last.activeProjectId) :
       /\ WellFormed(projects[i])
       /\ projects[i].data # last.projects[i].data
       /\ projects[i].data[last.arg[1]] = last.arg[2]
       /\ projects[i].data.versions # <<>>

\* C16: an import of a file whose meta.id no project of the list has puts the file as
\* it was given, meta and data, in front of the projects of the list, which keep
\* their order, and makes its meta.id the active project id.
C16_ImportAdmitsFileAsGiven ==
  (/\ last.op = "import"
   /\ HasKey(last.arg, "meta")
   /\ last.arg.meta.id \notin ListedIds(last.projects))
  => /\ projects = <<last.arg>> \o last.projects
     /\ activeProjectId = last.arg.meta.id

\* a well-formed file was put in front of two projects and is shown in the editor
C16_Witness ==
  /\ last.op = "import"
  /\ Len(last.projects) = 2
  /\ WellFormed(last.arg)
  /\ projects = <<last.arg, last.projects[1], last.projects[2]>>
  /\ activeProjectId = last.arg.meta.id
  /\ pc = "idle"
  /\ view.screen = "editor"

Resolves(ps, id) == \E i \in 1..Len(ps) : HasKey(ps[i], "meta") /\ ps[i].meta.id = id

\* C18: the active project id is null or the meta.id of a project of the list; and
\* when the handlers and the render they caused are done, the editor is on the
\* screen if the active id is the id of a project of the list, the dashboard if not.
C18_ActiveIdResolves ==
  /\ activeProjectId = Null \/ Resolves(projects, activeProjectId)
  /\ Accepting =>
       view.screen = (IF activeProjectId # Null /\ Resolves(projects, activeProjectId)
                      THEN "editor" ELSE "dashboard")

\* after two handler calls that changed the list, the second project of the list was
\* opened and is in the editor
C18_Witness ==
  /\ last.op = "open"
  /\ calls = 2
  /\ Len(projects) >= 2
  /\ activeProjectId = projects[2].meta.id
  /\ activeProjectId # projects[1].meta.id
  /\ pc = "idle"
  /\ view.screen = "editor"

\* the index of the project the editor shows: projects.find(p => p.meta.id === id)
Shown(ps, id) == Find(ps, id, 1).index

\* C19: every project that handleCreateProject makes has a library equal to
\* INITIAL_LIBRARY, whatever libraries were edited before; and setLibraryWrapper
\* changes the library of no project but the one in the editor.
C19_LibrariesIndependent ==
  /\ last.op = "create" => projects[1].data.library = INITIAL_LIBRARY
  /\ Edited({"library"}) =>
       \A i \in 1..Len(last.projects) :
         i # Shown(last.projects, last.activeProjectId)
         => SameField(projects[i].data, last.projects[i].data, "library")

\* C20: from the load effect of a start until the first handler call no project is
\* active; if the item was absent, was not JSON or was no array, the list is empty
\* and the item is what it was; if it was an array, the list is that array.
C20_LoadResult ==
  last.op = "load" =>
    /\ activeProjectId = Null
    /\ IF last.arg \notin OtherStorage
       THEN projects = Parse(last.arg)
       ELSE /\ projects = <<>>
            /\ storage = last.arg

\* the application started on an item that is not JSON, after a run that made two
\* handler calls: the dashboard is on the screen with no project
C20_Witness ==
  /\ last.op = "load"
  /\ last.arg = Garbage
  /\ calls = 2
  /\ pc = "idle"
  /\ view.screen = "dashboard"
  /\ projects = <<>>
  /\ storage = Garbage

====
